---- MODULE Spec2Model ----
(***************************************************************************)
(* A model of the file-watching command supervisor: GuardContext.Do and    *)
(* GuardContext.Stop of guard.go, the child runner run and KillTree of     *)
(* pkg/exec/exec_unix.go, and main of cmd/guard/main.go.                   *)
(*                                                                         *)
(* Spec, SpecTree, SpecWatch: one supervisor, its event-loop goroutine,    *)
(*   the run goroutines it launches, the processes they spawn, the         *)
(*   poller's watch set and a discrete clock.                              *)
(* SpecLive: that supervisor, never stopped, with fair scheduling of its   *)
(*   goroutines and children that exit when killed.                        *)
(* SpecMain: main from os.Args to the start of the supervisors.            *)
(* SpecSups: main and the two supervisors of a two-partition command       *)
(*   line, their runs, the raw lock and the terminal they share.           *)
(* SpecRender: unescapeArgs of one run.                                    *)
(* SpecWriter: the read loop of run that prefixes the child's output.      *)
(***************************************************************************)
EXTENDS Integers, Sequences, FiniteSets, TLC

\* ------------------------------------------------------------------ bounds
\* number of run goroutines (`go run(..)`) one behaviour may launch
MaxRuns == 3
\* number of clock ticks after the start of the program
MaxTime == 4
\* the debounce interval (ctx.debounce), in clock ticks
DebounceTicks == 2
\* number of events the poller delivers to the event loop in one behaviour
MaxEvents == 3
\* number of descendants one child forks
MaxDesc == 1
\* number of tokens on the command line of main
MaxArgs == 5
\* number of run goroutines each supervisor of main may launch
MaxSupRuns == 2
\* number of events the poller of each supervisor of main delivers
MaxSupEvents == 1
\* number of argv tokens of the command of a supervisor
MaxTokens == 2
\* number of runes a child writes
MaxOut == 4

\* --------------------------------------------------------------- universe
Nil == 0
\* no event in hand; no directory Create received yet
NoEvent == [path |-> "", op |-> ""]
NoDir == [path |-> "", files |-> {}, dropped |-> FALSE]
Runs == 1..MaxRuns
\* time.Time{} (guard.go:205, `var lastRun time.Time`) is the zero time; the
\* wall clock starts so far from it that time.Since(zero) exceeds any debounce
ZeroTime == 0
Epoch == ZeroTime + 2 * DebounceTicks + 1

\* the watched root, a matched file, an unmatched file, a matched directory
\* and a matched file inside that directory
Root == "."
Paths == {"a", "x", "D", "D/f"}
Parent(p) == IF p = "D/f" THEN "D" ELSE Root
IsDir(p) == p \in {"D", Root}
Ops == {"CREATE", "WRITE"}

\* the kinds of process in the tree of one spawned child: the child itself
\* (session and group leader, pty.Start), a descendant that stays in the
\* child's group, one that stays but ignores SIGTERM, one that left the group
Kinds == {"child", "plain", "ignoring", "escaped"}
DescKinds == Kinds \ {"child"}
Procs == Runs \X Kinds

NL == "\n"
\* the command line of main: the separator of partitions, the separator of
\* flags and command, a command word, a flag, two config file tokens
Tokens == {"---", "--", "c", "--raw", "@f", "@g"}
ArgLists == UNION {[1..n -> Tokens] : n \in 0..MaxArgs}
Files == {"f", "g"}
\* the contents of the config files, line breaks apart from text
FileText(f) ==
    IF f = "f" THEN <<"--raw", NL, "--", NL, "c">>
    ELSE <<"@f", NL, NL, "c", NL>>
\* the flags of the kingpin application that take no value
KnownFlags == {"--raw"}

\* the supervisors main runs side by side, one per partition, and their runs
Sups == {1, 2}
SupRuns == 1..MaxSupRuns
NoRun == <<0, 0>>

\* paths for filepath.Abs and filepath.Rel: absolute or not, and the names
\* between the separators; the working directory of the process is /w
EmptyPath == [abs |-> FALSE, segs |-> <<>>]
Cwd == <<"w">>
\* ctx.dir: not set, a directory below the working directory, the working
\* directory, the root
Dirs == {EmptyPath, [abs |-> FALSE, segs |-> <<"sub">>],
         [abs |-> TRUE, segs |-> <<"w">>], [abs |-> TRUE, segs |-> <<>>]}
\* e.Path of the events of the poller
EventPaths == {[abs |-> TRUE, segs |-> <<"w", "a">>],
               [abs |-> TRUE, segs |-> <<"w", "sub", "b">>]}
\* run(nil): no event
NilEvent == [path |-> EmptyPath, op |-> "nil"]
\* the zero value of watcher.Op is Create
ZeroOp == "CREATE"
\* &watcher.Event{}
ZeroEvent == [path |-> EmptyPath, op |-> ZeroOp]
\* the argv tokens of a command: text and mustache tags
ArgTokens == {<<"echo">>, <<"{{path}}">>, <<"{{op}}">>, <<"{{op}}", ":", "{{path}}">>}
CmdArgs == UNION {[1..n -> ArgTokens] : n \in 0..MaxTokens}
\* unescapeArgs has no input; it has not returned
NoRender == [dir |-> EmptyPath, args |-> <<>>, ev |-> NilEvent]
NotRendered == <<<<"<unset>">>>>

\* the runes of the output of a child; the prefix; the rune ReadRune returns
\* with an error
Runes == {"c", NL}
Outputs == UNION {[1..n -> Runes] : n \in 0..MaxOut}
Prefix == "prefix"
NulRune == "NUL"
\* the path matched by the patterns of supervisor 1 alone, and of supervisor 2 alone
SupPaths == {"p1", "p2"}

VARIABLES
    noInitRun,  \* ctx.noInitRun
    debounce,   \* *debounce of the event loop
    doPc,       \* position of Do: "init", "polling" (in watcher.Start), "returned"
    loopPc,     \* position of the event loop: "none", "select", "kill", "wait", "done", "panic"
    curEvent,   \* the event e the event loop is processing, NoEvent at the select
    lastRun,    \* lastRun of the event loop
    now,        \* the wall clock
    count,      \* ctx.count
    cmd,        \* execCtxClone.GetCmd(): Nil or the run whose Do created the command
    runPc,      \* position of each run goroutine
    spawned,    \* the runs whose command has a Process (pty.Start succeeded)
    alive,      \* the processes alive
    termed,     \* the processes a SIGTERM of KillTree will terminate
    killLog,    \* history: <<pid, group had a live process>> of every KillTree issued
    fs,         \* the paths that exist on disk
    watched,    \* the names added to the poller (watcher.Add)
    known,      \* the poller's snapshot of the files it has seen
    nMatched,   \* history: number of matched events received
    firstT,     \* history: arrival time of the first matched event
    lastT,      \* history: arrival time of the latest matched event
    burst,      \* history: every matched event after the first came within debounce of its predecessor
    lastDir,    \* history: the latest matched directory Create received, and whether it was dropped
    logged,     \* the lines logged about a run: <<"run", g>>, <<"done", g>>
    lastWalk,   \* history: directory and file system of the latest watchFiles call
    nPassed,    \* history: number of matched events that arrived a debounce interval
                \* or more after the previous matched event, the first one included
    passedAt,   \* history: number of matched events received up to the latest
                \* such event, that one included
    served,     \* history: number of matched events received when the latest
                \* run called pty.Start
    nOther,     \* history: number of events received that the matcher did not match
    otherAt,    \* history: number of matched events received before the latest such event
    afterFail,  \* history: a matched event past the debounce window was received after the spawn of the latest run had failed
    mainPc,     \* position of main: "args", "split", "gen", "built", "waiting", "panic", "killed"
    osArgs,     \* os.Args[1:]
    readable,   \* the config files kit.ReadFile can read
    argv,       \* the result of argsFromConfigFile
    parts,      \* the result of split
    optsList,   \* optsList of main
    panicMsg,   \* the value main panicked with
    sIsRaw,     \* isRaw of the ExecContext main built for each supervisor
    sLoopPc,    \* position of the event loop of each supervisor
    sLastRun,   \* lastRun of the event loop of each supervisor
    sCount,     \* ctx.count of each supervisor
    sCmd,       \* execCtxClone.GetCmd() of each supervisor
    sRunPc,     \* position of each run goroutine of each supervisor
    sSpawned,   \* the runs <<supervisor, run>> whose pty.Start succeeded
    mAlive,     \* the children <<supervisor, run>> alive
    rawLock,    \* the run holding rawLock, NoRun when it is free
    ttyRaw,     \* the controlling terminal is in raw mode
    sOld,       \* oldState of each run: "nil", or the terminal mode MakeRaw saved
    sKills,     \* history: number of KillTree calls of each supervisor
    sOwnEv,     \* history: number of events matching its patterns each supervisor received
    sOtherEv,   \* history: number of events not matching its patterns each supervisor received
    renderIn,   \* unescapeArgs: ctx.dir, ctx.args and the event of a run
    renderOut,  \* unescapeArgs: its result, NotRendered before the run
    childOut,   \* prefix writer: the runes the child writes to the pty
    nRead,      \* prefix writer: the number of runes ReadRune has returned
    newline,    \* prefix writer: newline
    written,    \* prefix writer: what was written to Stdout
    readPc      \* prefix writer: "loop", "done"

vars == <<noInitRun, debounce, doPc, loopPc, curEvent, lastRun, now, count, cmd,
          runPc, spawned, alive, termed, killLog, logged, fs, watched, known,
          nMatched, firstT, lastT, burst, lastDir, lastWalk, nPassed, passedAt, served, nOther, otherAt,
          afterFail,
          mainPc, osArgs, readable, argv, parts, optsList, panicMsg,
          sIsRaw, sLoopPc, sLastRun, sCount, sCmd, sRunPc, sSpawned,
          mAlive, rawLock, ttyRaw, sOld, sKills, sOwnEv, sOtherEv,
          renderIn, renderOut, childOut, nRead, newline, written, readPc>>

procVars == <<spawned, alive, termed>>
watchVars == <<fs, watched, known>>
histVars == <<nMatched, firstT, lastT, burst, lastDir, lastWalk, nPassed, passedAt, served, nOther,
              otherAt, afterFail>>
loopVars == <<loopPc, curEvent, lastRun>>
\* one supervisor, its goroutines, children, poller and history
guardVars == <<noInitRun, debounce, doPc, loopVars, now, count, cmd, runPc,
               procVars, killLog, logged, watchVars, histVars>>
\* main up to the start of the supervisors
argVars == <<osArgs, readable, argv, parts, optsList, panicMsg>>
\* the supervisors main runs side by side, their runs and the terminal
supVars == <<sIsRaw, sLoopPc, sLastRun, sCount, sCmd, sRunPc, sSpawned,
             mAlive, rawLock, ttyRaw, sOld, sKills, sOwnEv, sOtherEv>>
renderVars == <<renderIn, renderOut>>
writerVars == <<childOut, nRead, newline, written, readPc>>
\* what the actions of the single supervisor leave alone
otherVars == <<mainPc, argVars, supVars, renderVars, writerVars>>

\* ------------------------------------------------------- pure operators
\* matcher.match(e.Path, e.IsDir()) for the patterns of this supervisor:
\* every path but "x" is matched
Matched(p) == p \in {"a", "D", "D/f"}

\* whether p lies strictly below dir
Under(p, dir) == dir = Root \/ Parent(p) = dir

\* Glob(ctx.patterns, &WalkOptions{Dir: dir, Matcher: matcher}): the matched
\* paths that exist below dir
Glob(dir, files) == {p \in files : Matched(p) /\ Under(p, dir)}

NeedsAddNever(has) == FALSE
\* _, has := dict[dir]; if !has { dict[dir] = Nil{}; ctx.watcher.Add(dir) }
NeedsAdd(has) == ~has

\* the names watchFiles(dir) hands to ctx.watcher.Add: every path p of the
\* list, and filepath.Dir(p) unless dict, which starts as the list, has it
WatchFilesAdds(dir, files) ==
    LET list == Glob(dir, files) IN
    list \cup {Parent(p) : p \in {q \in list : NeedsAdd(Parent(q) \in list)}}

\* what the poller records when a name is added: the name itself and, for a
\* directory, the entries it holds at that moment
AddSnapshot(names, files) ==
    (names \cap (files \cup {Root})) \cup {c \in files : Parent(c) \in names}

\* the poller lists every added name and the entries of every added directory
Observable(p) == p \in watched \/ Parent(p) \in watched

DebouncedLe(t, last, d) == t - last <= d
\* time.Since(lastRun) < *debounce
Debounced(t, last, d) == t - last < d

IgnoredLastRunNow(t, last) == t
\* lastRun after an event the matcher does not match: `continue` comes
\* before any assignment to lastRun
IgnoredLastRun(t, last) == last

DroppedLastRunKept(t, last) == last
\* lastRun after an event inside the debounce window: lastRun = time.Now()
DroppedLastRun(t, last) == t

ProcessedLastRunKept(t, last) == last
\* lastRun after an event past the debounce window: lastRun = time.Now()
ProcessedLastRun(t, last) == t

InitialRunAlways(skip) == TRUE
\* if !ctx.noInitRun { go run(nil) }
InitialRun(skip) == ~skip

\* the run goroutines launched so far
Launched == {g \in Runs : runPc[g] # "none"}
NLaunched == Cardinality(Launched)

\* `go run(..)`: the next run goroutine starts
GoRun(pcs) == [pcs EXCEPT ![Cardinality({g \in Runs : pcs[g] # "none"}) + 1] = "start"]

\* the processes of group -pid a SIGTERM reaches, and those it terminates
GroupOf(pid) == {p \in alive : p[1] = pid /\ p[2] # "escaped"}
KillTreeTerminates(pid) == {p \in GroupOf(pid) : p[2] # "ignoring"}

\* the command of the latest run has no Process and will get none: pty.Start
\* returned an error and the run goroutine went on to ctx.wait <- Nil{}
SpawnFailed == cmd # Nil /\ cmd \notin spawned /\ runPc[cmd] = "send"

\* the process is gone: the event loop panicked (nil dereference)
Crashed == loopPc = "panic"

\* ---------------------------------------------------------------- Init
\* main has not run: no command line, no supervisor of main
MainIdle ==
    /\ osArgs = <<>>
    /\ readable = {}
    /\ argv = <<>>
    /\ parts = <<>>
    /\ optsList = <<>>
    /\ panicMsg = ""

SupsIdle ==
    /\ sIsRaw = [s \in Sups |-> FALSE]
    /\ sLoopPc = [s \in Sups |-> "none"]
    /\ sLastRun = [s \in Sups |-> ZeroTime]
    /\ sCount = [s \in Sups |-> 0]
    /\ sCmd = [s \in Sups |-> Nil]
    /\ sRunPc = [s \in Sups |-> [g \in SupRuns |-> "none"]]
    /\ sSpawned = {}
    /\ mAlive = {}
    /\ rawLock = NoRun
    /\ ttyRaw = FALSE
    /\ sOld = [r \in Sups \X SupRuns |-> "nil"]
    /\ sKills = [s \in Sups |-> 0]
    /\ sOwnEv = [s \in Sups |-> 0]
    /\ sOtherEv = [s \in Sups |-> 0]

\* no run renders its arguments
RenderIdle ==
    /\ renderIn = NoRender
    /\ renderOut = NotRendered

\* no child writes output
WriterIdle ==
    /\ childOut = <<>>
    /\ nRead = 0
    /\ newline = TRUE
    /\ written = <<>>
    /\ readPc = "done"

\* the supervisor after Guard(..) and its builder calls
GuardInit ==
    /\ debounce = DebounceTicks
    /\ doPc = "init"
    /\ loopPc = "none"
    /\ curEvent = NoEvent
    /\ lastRun = ZeroTime
    /\ now = Epoch
    /\ count = 0
    /\ cmd = Nil
    /\ runPc = [g \in Runs |-> "none"]
    /\ spawned = {}
    /\ alive = {}
    /\ termed = {}
    /\ killLog = {}
    /\ logged = {}
    /\ fs = {"a", "x"}
    /\ watched = {}
    /\ known = {}
    /\ nMatched = 0
    /\ firstT = ZeroTime
    /\ lastT = ZeroTime
    /\ burst = TRUE
    /\ lastDir = NoDir
    /\ lastWalk = NoDir
    /\ nPassed = 0
    /\ passedAt = 0
    /\ served = 0
    /\ nOther = 0
    /\ otherAt = 0
    /\ afterFail = FALSE

\* a supervisor built by a program that calls Do and Stop itself
Init ==
    /\ noInitRun \in BOOLEAN
    /\ GuardInit
    /\ mainPc = "none"
    /\ MainIdle
    /\ SupsIdle
    /\ RenderIdle
    /\ WriterIdle

\* ------------------------------------------------------------- actions
\* Do up to watcher.Start: the initial watchFiles(ctx.dir), the event-loop
\* goroutine, the initial run
DoSetup ==
    /\ doPc = "init"
    /\ doPc' = "polling"
    /\ watched' = watched \cup WatchFilesAdds(Root, fs)
    /\ known' = known \cup AddSnapshot(WatchFilesAdds(Root, fs), fs)
    /\ loopPc' = "select"
    /\ runPc' = IF InitialRun(noInitRun) THEN GoRun(runPc) ELSE runPc
    /\ lastWalk' = [path |-> Root, files |-> fs, dropped |-> FALSE]
    /\ UNCHANGED <<otherVars, noInitRun, debounce, curEvent, lastRun, now, count, cmd,
                   procVars, killLog, logged, fs>>
    /\ UNCHANGED <<nMatched, firstT, lastT, burst, lastDir, nPassed, passedAt, served, nOther, otherAt,
                   afterFail>>

\* GuardContext.Stop: watcher.Close() closes the Closed channel and makes
\* watcher.Start, and so Do, return
Stop ==
    /\ doPc = "polling"
    /\ ~Crashed
    /\ doPc' = "returned"
    /\ UNCHANGED <<otherVars, noInitRun, debounce, loopVars, now, count, cmd, runPc,
                   procVars, killLog, logged, watchVars, histVars>>

\* time passes
Tick ==
    /\ now < Epoch + MaxTime
    /\ now' = now + 1
    /\ UNCHANGED <<otherVars, noInitRun, debounce, doPc, loopVars, count, cmd, runPc,
                   procVars, killLog, logged, watchVars, histVars>>

\* a file or directory appears on disk
FsCreate(p) ==
    /\ p \notin fs
    /\ Parent(p) \in fs \cup {Root}
    /\ fs' = fs \cup {p}
    /\ UNCHANGED <<otherVars, noInitRun, debounce, doPc, loopVars, now, count, cmd, runPc,
                   procVars, killLog, logged, watched, known, histVars>>

\* the poller can deliver the event (p, op): a Create for an entry it lists
\* and has not seen, a Write for one it has seen
PollerEmits(p, op) ==
    /\ p \in fs
    /\ IF op = "CREATE" THEN p \notin known /\ Observable(p) ELSE p \in known

\* the names the event loop adds for a processed Create event (guard.go:231-239)
CreateAdds(p, op) ==
    IF op # "CREATE" THEN {}
    ELSE IF IsDir(p) THEN WatchFilesAdds(p, fs) ELSE {p}

\* the event loop receives an event from ctx.watcher.Event and handles it up
\* to the check of execCtxClone.GetCmd() (guard.go:213-241, 247)
EvReceive(p, op) ==
    /\ doPc = "polling"
    /\ loopPc = "select"
    /\ PollerEmits(p, op)
    /\ LET seen == IF op = "CREATE" THEN known \cup {p} ELSE known
           dropped == Debounced(now, lastRun, debounce)
           late == nMatched = 0 \/ now - lastT >= debounce
       IN
       IF ~Matched(p)
       THEN /\ nMatched + nOther < MaxEvents
            /\ nOther' = nOther + 1
            /\ otherAt' = nMatched
            /\ lastRun' = IgnoredLastRun(now, lastRun)
            /\ known' = seen
            /\ UNCHANGED <<loopPc, curEvent, runPc, watched>>
            /\ UNCHANGED <<nMatched, firstT, lastT, burst, lastDir, lastWalk, nPassed, passedAt, served,
                           afterFail>>
       ELSE /\ nMatched + nOther < MaxEvents
            /\ UNCHANGED <<nOther, otherAt>>
            /\ nMatched' = nMatched + 1
            /\ firstT' = IF nMatched = 0 THEN now ELSE firstT
            /\ lastT' = now
            /\ burst' = (burst /\ (nMatched = 0 \/ now - lastT < debounce))
            /\ lastDir' = IF op = "CREATE" /\ IsDir(p)
                          THEN [path |-> p, files |-> fs, dropped |-> dropped]
                          ELSE lastDir
            /\ lastWalk' = IF op = "CREATE" /\ IsDir(p) /\ ~dropped
                           THEN [path |-> p, files |-> fs, dropped |-> FALSE]
                           ELSE lastWalk
            /\ afterFail' = (afterFail \/ (~dropped /\ SpawnFailed))
            /\ nPassed' = IF late THEN nPassed + 1 ELSE nPassed
            /\ passedAt' = IF late THEN nMatched + 1 ELSE passedAt
            /\ UNCHANGED served
            /\ IF dropped
               THEN /\ lastRun' = DroppedLastRun(now, lastRun)
                    /\ known' = seen
                    /\ UNCHANGED <<loopPc, curEvent, runPc, watched>>
               ELSE /\ lastRun' = ProcessedLastRun(now, lastRun)
                    /\ watched' = watched \cup CreateAdds(p, op)
                    /\ known' = seen \cup AddSnapshot(CreateAdds(p, op), fs)
                    /\ IF cmd = Nil
                       THEN /\ NLaunched < MaxRuns
                            /\ runPc' = GoRun(runPc)
                            /\ UNCHANGED <<loopPc, curEvent>>
                       ELSE /\ loopPc' = "kill"
                            /\ curEvent' = [path |-> p, op |-> op]
                            /\ UNCHANGED runPc
    /\ UNCHANGED <<otherVars, noInitRun, debounce, doPc, now, count, cmd, procVars, killLog, logged, fs>>

\* KillTree(execCtxClone.GetCmd().Process.Pid) (guard.go:242): the command is
\* read again; a nil command or a nil Process is a nil dereference. The error
\* KillTree returns (no process left in the group) is not assigned: no line is
\* logged and <-ctx.wait comes next either way
EvKill ==
    /\ loopPc = "kill"
    /\ IF cmd = Nil \/ cmd \notin spawned
       THEN /\ loopPc' = "panic"
            /\ UNCHANGED <<termed, killLog>>
       ELSE /\ termed' = termed \cup KillTreeTerminates(cmd)
            /\ killLog' = killLog \cup {<<cmd, GroupOf(cmd) # {}>>}
            /\ loopPc' = "wait"
    /\ UNCHANGED <<otherVars, noInitRun, debounce, doPc, curEvent, lastRun, now, count, cmd,
                   runPc, spawned, alive, logged, watchVars, histVars>>

\* <-ctx.wait, then go run(&e) (guard.go:244-247): the rendezvous with the
\* run goroutine g that is at ctx.wait <- Nil{}
EvWait(g) ==
    /\ loopPc = "wait"
    /\ runPc[g] = "send"
    /\ NLaunched < MaxRuns
    /\ runPc' = GoRun([runPc EXCEPT ![g] = "finished"])
    /\ loopPc' = "select"
    /\ curEvent' = NoEvent
    /\ UNCHANGED <<otherVars, noInitRun, debounce, doPc, lastRun, now, count, cmd,
                   procVars, killLog, logged, watchVars, histVars>>

\* case err := <-ctx.watcher.Error: the error is logged
EvError ==
    /\ doPc = "polling"
    /\ loopPc = "select"
    /\ UNCHANGED vars

\* case <-ctx.watcher.Closed: the event loop returns
EvClosed ==
    /\ doPc = "returned"
    /\ loopPc = "select"
    /\ loopPc' = "done"
    /\ UNCHANGED <<otherVars, noInitRun, debounce, doPc, curEvent, lastRun, now, count, cmd,
                   runPc, procVars, killLog, logged, watchVars, histVars>>

\* run, guard.go:138-145: ctx.count++, the "run" line and
\* execCtxClone = *ctx.execCtx, which holds no command
RunBegin(g) ==
    /\ runPc[g] = "start"
    /\ ~Crashed
    /\ count' = count + 1
    /\ cmd' = Nil
    /\ runPc' = [runPc EXCEPT ![g] = "do"]
    /\ logged' = logged \cup {<<"run", g>>}
    /\ UNCHANGED <<otherVars, noInitRun, debounce, doPc, loopVars, now, procVars, killLog,
                   watchVars, histVars>>

\* execCtxClone...Do() creates the command and keeps it in the context
RunDo(g) ==
    /\ runPc[g] = "do"
    /\ ~Crashed
    /\ cmd' = g
    /\ runPc' = [runPc EXCEPT ![g] = "spawn"]
    /\ UNCHANGED <<otherVars, noInitRun, debounce, doPc, loopVars, now, count, procVars,
                   killLog, logged, watchVars, histVars>>

\* pty.Start(cmd) (exec_unix.go:22-25): the child is spawned as the leader of
\* a new session and group, or the start fails, run returns the error and the
\* run goroutine logs the "done" line with it (guard.go:147-152)
RunSpawn(g, ok) ==
    /\ runPc[g] = "spawn"
    /\ ~Crashed
    /\ IF ok
       THEN /\ spawned' = spawned \cup {g}
            /\ alive' = alive \cup {<<g, "child">>}
            /\ runPc' = [runPc EXCEPT ![g] = "running"]
            /\ UNCHANGED logged
       ELSE /\ runPc' = [runPc EXCEPT ![g] = "send"]
            /\ logged' = logged \cup {<<"done", g>>}
            /\ UNCHANGED <<spawned, alive>>
    /\ served' = nMatched
    /\ UNCHANGED <<otherVars, noInitRun, debounce, doPc, loopVars, now, count, cmd, termed,
                   killLog, watchVars>>
    /\ UNCHANGED <<nMatched, firstT, lastT, burst, lastDir, lastWalk, nPassed, passedAt, nOther,
                   otherAt, afterFail>>

\* the read loop ends and cmd.Wait() returns (exec_unix.go:64-83) once the
\* child is dead; the run goroutine logs the "done" line (guard.go:152) and
\* goes on to ctx.wait <- Nil{}
RunWaitReturn(g) ==
    /\ runPc[g] = "running"
    /\ ~Crashed
    /\ <<g, "child">> \notin alive
    /\ runPc' = [runPc EXCEPT ![g] = "send"]
    /\ logged' = logged \cup {<<"done", g>>}
    /\ UNCHANGED <<otherVars, noInitRun, debounce, doPc, loopVars, now, count, cmd, procVars,
                   killLog, watchVars, histVars>>

\* a live child forks a descendant of kind k
Fork(g, k) ==
    /\ <<g, "child">> \in alive \ termed
    /\ <<g, k>> \notin alive
    /\ Cardinality({p \in alive : p[1] = g /\ p[2] # "child"}) < MaxDesc
    /\ alive' = alive \cup {<<g, k>>}
    /\ UNCHANGED <<otherVars, noInitRun, debounce, doPc, loopVars, now, count, cmd, runPc,
                   spawned, termed, killLog, logged, watchVars, histVars>>

\* a process exits, of its own accord or terminated by a signal
ProcExit(p) ==
    /\ p \in alive
    /\ alive' = alive \ {p}
    /\ termed' = termed \ {p}
    /\ UNCHANGED <<otherVars, noInitRun, debounce, doPc, loopVars, now, count, cmd, runPc,
                   spawned, killLog, logged, watchVars, histVars>>

\* the supervisor, its goroutines and its children
Next ==
    \/ DoSetup
    \/ Stop
    \/ Tick
    \/ \E p \in Paths, op \in Ops : EvReceive(p, op)
    \/ EvKill
    \/ \E g \in Runs : EvWait(g)
    \/ EvError
    \/ EvClosed
    \/ \E g \in Runs : RunBegin(g)
    \/ \E g \in Runs : RunDo(g)
    \/ \E g \in Runs, ok \in BOOLEAN : RunSpawn(g, ok)
    \/ \E g \in Runs : RunWaitReturn(g)
    \/ \E p \in Procs : ProcExit(p)

Spec == Init /\ [][Next]_vars

\* the supervisor with children that fork descendants, all within one tick
\* of the clock
NextTree ==
    \/ DoSetup
    \/ Stop
    \/ \E p \in Paths, op \in Ops : EvReceive(p, op)
    \/ EvKill
    \/ \E g \in Runs : EvWait(g)
    \/ EvClosed
    \/ \E g \in Runs : RunBegin(g)
    \/ \E g \in Runs : RunDo(g)
    \/ \E g \in Runs, ok \in BOOLEAN : RunSpawn(g, ok)
    \/ \E g \in Runs : RunWaitReturn(g)
    \/ \E g \in Runs, k \in DescKinds : Fork(g, k)
    \/ \E p \in Procs : ProcExit(p)

SpecTree == Init /\ [][NextTree]_vars

\* the supervisor with a file system that grows, all within one tick of the
\* clock
NextWatch ==
    \/ DoSetup
    \/ Stop
    \/ \E p \in Paths : FsCreate(p)
    \/ \E p \in Paths, op \in Ops : EvReceive(p, op)
    \/ EvKill
    \/ \E g \in Runs : EvWait(g)
    \/ EvClosed
    \/ \E g \in Runs : RunBegin(g)
    \/ \E g \in Runs : RunDo(g)
    \/ \E g \in Runs, ok \in BOOLEAN : RunSpawn(g, ok)
    \/ \E g \in Runs : RunWaitReturn(g)
    \/ \E p \in Procs : ProcExit(p)

SpecWatch == Init /\ [][NextWatch]_vars

\* the steps of the event-loop goroutine that wait for no event of the poller
LoopStep == EvKill \/ \E g \in Runs : EvWait(g)
\* the steps of the run goroutines
RunStep ==
    \E g \in Runs :
        RunBegin(g) \/ RunDo(g) \/ (\E ok \in BOOLEAN : RunSpawn(g, ok)) \/ RunWaitReturn(g)
\* a process that KillTree signalled exits
KilledExit == \E p \in termed : ProcExit(p)

\* the supervisor that is never stopped, with the events of the paths its
\* patterns match
NextLive ==
    \/ DoSetup
    \/ Tick
    \/ \E p \in {q \in Paths : Matched(q)}, op \in Ops : EvReceive(p, op)
    \/ EvKill
    \/ \E g \in Runs : EvWait(g)
    \/ \E g \in Runs : RunBegin(g)
    \/ \E g \in Runs : RunDo(g)
    \/ \E g \in Runs, ok \in BOOLEAN : RunSpawn(g, ok)
    \/ \E g \in Runs : RunWaitReturn(g)
    \/ \E p \in Procs : ProcExit(p)

\* ... with goroutines that are scheduled whenever they can take a step and
\* children that exit when killed; time and events may stop at any moment
SpecLive ==
    /\ Init
    /\ [][NextLive]_vars
    /\ WF_vars(DoSetup)
    /\ WF_vars(LoopStep)
    /\ WF_vars(RunStep)
    /\ WF_vars(KilledExit)

\* ------------------------------------------------------------------ main
\* len(elem) > 1 && elem[0] == '@'
IsFileToken(elem) == elem \in {"@f", "@g"}
\* elem[1:]
FileOf(elem) == IF elem = "@f" THEN "f" ELSE "g"

\* regexp.MustCompile(`[\n\r]+`).Split(text, -1): the pieces between the runs
\* of line breaks, the empty piece before a leading and after a trailing run
\* included
RECURSIVE LinesFrom(_, _, _, _, _)
LinesFrom(text, i, list, cur, inBreak) ==
    IF i > Len(text) THEN Append(list, cur)
    ELSE IF text[i] = NL
         THEN IF inBreak THEN LinesFrom(text, i + 1, list, cur, TRUE)
              ELSE LinesFrom(text, i + 1, Append(list, cur), "", TRUE)
         ELSE LinesFrom(text, i + 1, list, text[i], FALSE)
SplitLines(text) == LinesFrom(text, 1, <<>>, "", FALSE)

\* argsFromConfigFile: the loop returns at the first "@file" element, with
\* the lines of the file when it can be read and with args when it cannot
RECURSIVE ConfigFrom(_, _, _)
ConfigFrom(args, i, rd) ==
    IF i > Len(args) THEN args
    ELSE IF IsFileToken(args[i])
         THEN IF FileOf(args[i]) \in rd THEN SplitLines(FileText(FileOf(args[i])))
              ELSE args
         ELSE ConfigFrom(args, i + 1, rd)
ArgsFromConfigFile(args, rd) == ConfigFrom(args, 1, rd)

IsSeparatorTwoDashes(arg) == arg = "--"
\* arg == "---" in the loop of split
IsSeparator(arg) == arg = "---"

\* split: list and tmp of the loop, and the closing append(list, tmp)
RECURSIVE SplitFrom(_, _, _, _)
SplitFrom(args, i, list, tmp) ==
    IF i > Len(args) THEN Append(list, tmp)
    ELSE IF IsSeparator(args[i])
         THEN SplitFrom(args, i + 1, Append(list, tmp), <<>>)
         ELSE SplitFrom(args, i + 1, list, Append(tmp, args[i]))
Split(args) == SplitFrom(args, 1, <<>>, <<>>)

\* indexOf: the position of the first elem equal to str, counted from 0, or -1
IndexOf(list, str) ==
    IF \E i \in 1..Len(list) : list[i] = str
    THEN (CHOOSE i \in 1..Len(list) :
              list[i] = str /\ \A j \in 1..(i - 1) : list[j] # str) - 1
    ELSE -1

\* parseArgs: args[:i] and args[i+1:], or args and a nil slice without "--"
ParseArgs(args) ==
    LET i == IndexOf(args, "--") IN
    IF i = -1 THEN [appArgs |-> args, cmdArgs |-> <<>>, cmdNil |-> TRUE]
    ELSE [appArgs |-> SubSeq(args, 1, i),
          cmdArgs |-> SubSeq(args, i + 2, Len(args)),
          cmdNil |-> FALSE]

\* app.Parse(args) fails on an argument that is no flag of the application
ParseFails(appArgs) == \E i \in 1..Len(appArgs) : appArgs[i] \notin KnownFlags

\* genOptions: the options of one partition, or the value it panics with
GenOptions(args) ==
    LET pa == ParseArgs(args) IN
    IF ParseFails(pa.appArgs) THEN [panic |-> "parse error", raw |-> FALSE, cmd |-> <<>>]
    ELSE IF pa.cmdNil THEN [panic |-> "empty command", raw |-> FALSE, cmd |-> <<>>]
    ELSE [panic |-> "",
          raw |-> \E i \in 1..Len(pa.appArgs) : pa.appArgs[i] = "--raw",
          cmd |-> pa.cmdArgs]

\* main.go:29: argsFromConfigFile(os.Args[1:])
MainConfig ==
    /\ mainPc = "args"
    /\ argv' = ArgsFromConfigFile(osArgs, readable)
    /\ mainPc' = "split"
    /\ UNCHANGED <<osArgs, readable, parts, optsList, panicMsg>>
    /\ UNCHANGED <<guardVars, supVars, renderVars, writerVars>>

\* main.go:29: split(.., "---")
MainSplit ==
    /\ mainPc = "split"
    /\ parts' = Split(argv)
    /\ mainPc' = "gen"
    /\ UNCHANGED <<osArgs, readable, argv, optsList, panicMsg>>
    /\ UNCHANGED <<guardVars, supVars, renderVars, writerVars>>

\* main.go:29-31: one turn of the loop, genOptions of the next partition
MainGenOptions ==
    /\ mainPc = "gen"
    /\ Len(optsList) < Len(parts)
    /\ LET o == GenOptions(parts[Len(optsList) + 1]) IN
       IF o.panic # ""
       THEN /\ mainPc' = "panic"
            /\ panicMsg' = o.panic
            /\ UNCHANGED optsList
       ELSE /\ optsList' = Append(optsList, [raw |-> o.raw, cmd |-> o.cmd])
            /\ UNCHANGED <<mainPc, panicMsg>>
    /\ UNCHANGED <<osArgs, readable, argv, parts>>
    /\ UNCHANGED <<guardVars, supVars, renderVars, writerVars>>

\* main.go:33-61: the loop is through, kit.All(fns...)() starts one
\* goroutine per options and waits for them
MainStart ==
    /\ mainPc = "gen"
    /\ Len(optsList) = Len(parts)
    /\ mainPc' = "waiting"
    /\ UNCHANGED <<argVars, guardVars, supVars, renderVars, writerVars>>

\* main given a command line and config files
InitMain ==
    /\ noInitRun = FALSE
    /\ GuardInit
    /\ mainPc = "args"
    /\ osArgs \in ArgLists
    /\ readable \in SUBSET Files
    /\ argv = <<>>
    /\ parts = <<>>
    /\ optsList = <<>>
    /\ panicMsg = ""
    /\ SupsIdle
    /\ RenderIdle
    /\ WriterIdle

NextMain ==
    \/ MainConfig
    \/ MainSplit
    \/ MainGenOptions
    \/ MainStart

SpecMain == InitMain /\ [][NextMain]_vars

\* ------------------------------------------------- the supervisors of main
\* matcher.match for the patterns of supervisor s: disjoint patterns, "p1"
\* is matched by supervisor 1 alone and "p2" by supervisor 2 alone
MatchedBy(s, p) == (s = 1 /\ p = "p1") \/ (s = 2 /\ p = "p2")

IgnoredNever(matched) == FALSE
\* if !matched { continue }
Ignored(matched) == ~matched

\* ExecContext.Raw() makes the context a raw-mode one
Raw(isRaw) == TRUE
\* main.go:42-47: kit.Exec().Dir(..).Raw().Prefix(..), whatever *opts.raw is
CtxIsRaw(optRaw) == Raw(FALSE)

RestoredModeKept(old, cur) == cur
\* if oldState != nil { terminal.Restore(fd, oldState) }: whether the terminal
\* is raw after the deferred function, given the saved mode and the current one
RestoredMode(old, cur) == IF old = "nil" THEN cur ELSE old = "raw"

\* the run goroutines supervisor s has launched
SupLaunched(s) == {g \in SupRuns : sRunPc[s][g] # "none"}
\* `go run(..)` of a supervisor
SupGoRun(pcs) ==
    [pcs EXCEPT ![Cardinality({g \in SupRuns : pcs[g] # "none"}) + 1] = "start"]

\* the process is gone: killed by a signal, or a goroutine panicked
SupCrashed == mainPc = "killed" \/ \E s \in Sups : sLoopPc[s] = "panic"

\* the goroutine kit.All starts for supervisor s: the supervisor is built
\* (main.go:35-55) and MustDo runs Do up to watcher.Start
SupSetup(s) ==
    /\ mainPc = "waiting"
    /\ ~SupCrashed
    /\ sLoopPc[s] = "none"
    /\ sIsRaw' = [sIsRaw EXCEPT ![s] = CtxIsRaw(optsList[s].raw)]
    /\ sLoopPc' = [sLoopPc EXCEPT ![s] = "select"]
    /\ sRunPc' = [sRunPc EXCEPT ![s] = SupGoRun(sRunPc[s])]
    /\ UNCHANGED <<sLastRun, sCount, sCmd, sSpawned, mAlive, rawLock, ttyRaw, sOld,
                   sKills, sOwnEv, sOtherEv>>
    /\ UNCHANGED <<mainPc, argVars, guardVars, renderVars, writerVars>>

\* the event loop of supervisor s receives an event for path p from its
\* poller (guard.go:213-241, 247); the pollers of two supervisors may list
\* the same directory
SupReceive(s, p) ==
    /\ sLoopPc[s] = "select"
    /\ ~SupCrashed
    /\ sOwnEv[s] + sOtherEv[s] < MaxSupEvents
    /\ sOwnEv' = [sOwnEv EXCEPT ![s] = IF MatchedBy(s, p) THEN @ + 1 ELSE @]
    /\ sOtherEv' = [sOtherEv EXCEPT ![s] = IF MatchedBy(s, p) THEN @ ELSE @ + 1]
    /\ IF Ignored(MatchedBy(s, p))
       THEN UNCHANGED <<sLastRun, sLoopPc, sRunPc>>
       ELSE IF Debounced(now, sLastRun[s], debounce)
            THEN /\ sLastRun' = [sLastRun EXCEPT ![s] = DroppedLastRun(now, @)]
                 /\ UNCHANGED <<sLoopPc, sRunPc>>
            ELSE /\ sLastRun' = [sLastRun EXCEPT ![s] = ProcessedLastRun(now, @)]
                 /\ IF sCmd[s] = Nil
                    THEN /\ Cardinality(SupLaunched(s)) < MaxSupRuns
                         /\ sRunPc' = [sRunPc EXCEPT ![s] = SupGoRun(@)]
                         /\ UNCHANGED sLoopPc
                    ELSE /\ sLoopPc' = [sLoopPc EXCEPT ![s] = "kill"]
                         /\ UNCHANGED sRunPc
    /\ UNCHANGED <<sIsRaw, sCount, sCmd, sSpawned, mAlive, rawLock, ttyRaw, sOld, sKills>>
    /\ UNCHANGED <<mainPc, argVars, guardVars, renderVars, writerVars>>

\* KillTree(execCtxClone.GetCmd().Process.Pid) of supervisor s (guard.go:242)
SupKill(s) ==
    /\ sLoopPc[s] = "kill"
    /\ ~SupCrashed
    /\ IF sCmd[s] = Nil \/ <<s, sCmd[s]>> \notin sSpawned
       THEN /\ sLoopPc' = [sLoopPc EXCEPT ![s] = "panic"]
            /\ UNCHANGED sKills
       ELSE /\ sLoopPc' = [sLoopPc EXCEPT ![s] = "wait"]
            /\ sKills' = [sKills EXCEPT ![s] = @ + 1]
    /\ UNCHANGED <<sIsRaw, sLastRun, sCount, sCmd, sRunPc, sSpawned, mAlive, rawLock,
                   ttyRaw, sOld, sOwnEv, sOtherEv>>
    /\ UNCHANGED <<mainPc, argVars, guardVars, renderVars, writerVars>>

\* <-ctx.wait, then go run(&e) of supervisor s (guard.go:244-247)
SupWait(s, g) ==
    /\ sLoopPc[s] = "wait"
    /\ ~SupCrashed
    /\ sRunPc[s][g] = "send"
    /\ Cardinality(SupLaunched(s)) < MaxSupRuns
    /\ sRunPc' = [sRunPc EXCEPT ![s] = SupGoRun([@ EXCEPT ![g] = "finished"])]
    /\ sLoopPc' = [sLoopPc EXCEPT ![s] = "select"]
    /\ UNCHANGED <<sIsRaw, sLastRun, sCount, sCmd, sSpawned, mAlive, rawLock, ttyRaw,
                   sOld, sKills, sOwnEv, sOtherEv>>
    /\ UNCHANGED <<mainPc, argVars, guardVars, renderVars, writerVars>>

\* run of supervisor s, guard.go:138-145
SupRunBegin(s, g) ==
    /\ sRunPc[s][g] = "start"
    /\ ~SupCrashed
    /\ sCount' = [sCount EXCEPT ![s] = @ + 1]
    /\ sCmd' = [sCmd EXCEPT ![s] = Nil]
    /\ sRunPc' = [sRunPc EXCEPT ![s][g] = "do"]
    /\ UNCHANGED <<sIsRaw, sLoopPc, sLastRun, sSpawned, mAlive, rawLock, ttyRaw, sOld,
                   sKills, sOwnEv, sOtherEv>>
    /\ UNCHANGED <<mainPc, argVars, guardVars, renderVars, writerVars>>

\* execCtxClone...Do() of supervisor s creates the command
SupRunDo(s, g) ==
    /\ sRunPc[s][g] = "do"
    /\ ~SupCrashed
    /\ sCmd' = [sCmd EXCEPT ![s] = g]
    /\ sRunPc' = [sRunPc EXCEPT ![s][g] = "spawn"]
    /\ UNCHANGED <<sIsRaw, sLoopPc, sLastRun, sCount, sSpawned, mAlive, rawLock, ttyRaw,
                   sOld, sKills, sOwnEv, sOtherEv>>
    /\ UNCHANGED <<mainPc, argVars, guardVars, renderVars, writerVars>>

\* pty.Start(cmd) (exec_unix.go:22-25): the child is alive from here on; a
\* raw-mode run goes on to rawLock.Lock(), another one to the read loop
SupRunStart(s, g, ok) ==
    /\ sRunPc[s][g] = "spawn"
    /\ ~SupCrashed
    /\ IF ok
       THEN /\ sSpawned' = sSpawned \cup {<<s, g>>}
            /\ mAlive' = mAlive \cup {<<s, g>>}
            /\ sRunPc' = [sRunPc EXCEPT ![s][g] = IF sIsRaw[s] THEN "lock" ELSE "read"]
       ELSE /\ sRunPc' = [sRunPc EXCEPT ![s][g] = "send"]
            /\ UNCHANGED <<sSpawned, mAlive>>
    /\ UNCHANGED <<sIsRaw, sLoopPc, sLastRun, sCount, sCmd, rawLock, ttyRaw, sOld,
                   sKills, sOwnEv, sOtherEv>>
    /\ UNCHANGED <<mainPc, argVars, guardVars, renderVars, writerVars>>

\* rawLock.Lock() returns once the mutex is free, then terminal.MakeRaw
\* (exec_unix.go:45-49): the mode of the terminal is saved in oldState and
\* the terminal made raw, or the call fails, oldState is nil and the error
\* is logged
SupRunMakeRaw(s, g, ok) ==
    /\ sRunPc[s][g] = "lock"
    /\ ~SupCrashed
    /\ rawLock = NoRun
    /\ rawLock' = <<s, g>>
    /\ IF ok
       THEN /\ sOld' = [sOld EXCEPT ![<<s, g>>] = IF ttyRaw THEN "raw" ELSE "cooked"]
            /\ ttyRaw' = TRUE
       ELSE UNCHANGED <<sOld, ttyRaw>>
    /\ sRunPc' = [sRunPc EXCEPT ![s][g] = "read"]
    /\ UNCHANGED <<sIsRaw, sLoopPc, sLastRun, sCount, sCmd, sSpawned, mAlive,
                   sKills, sOwnEv, sOtherEv>>
    /\ UNCHANGED <<mainPc, argVars, guardVars, renderVars, writerVars>>

\* the read loop ends and cmd.Wait() returns (exec_unix.go:64-83) once the
\* child is dead; the deferred function of a raw-mode run is next
SupRunWaitReturn(s, g) ==
    /\ sRunPc[s][g] = "read"
    /\ ~SupCrashed
    /\ <<s, g>> \notin mAlive
    /\ sRunPc' = [sRunPc EXCEPT ![s][g] = IF sIsRaw[s] THEN "restore" ELSE "send"]
    /\ UNCHANGED <<sIsRaw, sLoopPc, sLastRun, sCount, sCmd, sSpawned, mAlive, rawLock,
                   ttyRaw, sOld, sKills, sOwnEv, sOtherEv>>
    /\ UNCHANGED <<mainPc, argVars, guardVars, renderVars, writerVars>>

\* the deferred function (exec_unix.go:50-53): terminal.Restore when
\* oldState is not nil
SupRunRestore(s, g) ==
    /\ sRunPc[s][g] = "restore"
    /\ ~SupCrashed
    /\ ttyRaw' = RestoredMode(sOld[<<s, g>>], ttyRaw)
    /\ sRunPc' = [sRunPc EXCEPT ![s][g] = "unlock"]
    /\ UNCHANGED <<sIsRaw, sLoopPc, sLastRun, sCount, sCmd, sSpawned, mAlive, rawLock,
                   sOld, sKills, sOwnEv, sOtherEv>>
    /\ UNCHANGED <<mainPc, argVars, guardVars, renderVars, writerVars>>

\* the deferred function (exec_unix.go:54): rawLock.Unlock(); run returns
\* and the run goroutine goes on to ctx.wait <- Nil{}
SupRunUnlock(s, g) ==
    /\ sRunPc[s][g] = "unlock"
    /\ ~SupCrashed
    /\ rawLock' = NoRun
    /\ sRunPc' = [sRunPc EXCEPT ![s][g] = "send"]
    /\ UNCHANGED <<sIsRaw, sLoopPc, sLastRun, sCount, sCmd, sSpawned, mAlive, ttyRaw,
                   sOld, sKills, sOwnEv, sOtherEv>>
    /\ UNCHANGED <<mainPc, argVars, guardVars, renderVars, writerVars>>

\* a child exits, of its own accord or terminated by a signal
SupProcExit(s, g) ==
    /\ <<s, g>> \in mAlive
    /\ mAlive' = mAlive \ {<<s, g>>}
    /\ UNCHANGED <<sIsRaw, sLoopPc, sLastRun, sCount, sCmd, sRunPc, sSpawned, rawLock,
                   ttyRaw, sOld, sKills, sOwnEv, sOtherEv>>
    /\ UNCHANGED <<mainPc, argVars, guardVars, renderVars, writerVars>>

\* SIGINT or SIGTERM is delivered to the process while main waits in
\* kit.All: main.go registers no handler, the process is terminated
Signal ==
    /\ mainPc = "waiting"
    /\ ~SupCrashed
    /\ mainPc' = "killed"
    /\ UNCHANGED <<argVars, guardVars, supVars, renderVars, writerVars>>

\* the command line of two supervisors, the first without --raw and the
\* second with it
SupArgs == <<"--", "c", "---", "--raw", "--", "c">>

\* main given the command line of two supervisors
InitSups ==
    /\ noInitRun = FALSE
    /\ GuardInit
    /\ mainPc = "args"
    /\ osArgs = SupArgs
    /\ readable = {}
    /\ argv = <<>>
    /\ parts = <<>>
    /\ optsList = <<>>
    /\ panicMsg = ""
    /\ SupsIdle
    /\ RenderIdle
    /\ WriterIdle

NextSups ==
    \/ MainConfig
    \/ MainSplit
    \/ MainGenOptions
    \/ MainStart
    \/ \E s \in Sups : SupSetup(s)
    \/ \E s \in Sups, p \in SupPaths : SupReceive(s, p)
    \/ \E s \in Sups : SupKill(s)
    \/ \E s \in Sups, g \in SupRuns : SupWait(s, g)
    \/ \E s \in Sups, g \in SupRuns : SupRunBegin(s, g)
    \/ \E s \in Sups, g \in SupRuns : SupRunDo(s, g)
    \/ \E s \in Sups, g \in SupRuns, ok \in BOOLEAN : SupRunStart(s, g, ok)
    \/ \E s \in Sups, g \in SupRuns, ok \in BOOLEAN : SupRunMakeRaw(s, g, ok)
    \/ \E s \in Sups, g \in SupRuns : SupRunWaitReturn(s, g)
    \/ \E s \in Sups, g \in SupRuns : SupRunRestore(s, g)
    \/ \E s \in Sups, g \in SupRuns : SupRunUnlock(s, g)
    \/ \E s \in Sups, g \in SupRuns : SupProcExit(s, g)
    \/ Signal

SpecSups == InitSups /\ [][NextSups]_vars

\* ---------------------------------------------------------- unescapeArgs
\* filepath.Abs: a path that is not absolute is joined to the working directory
Abs(p) == IF p.abs THEN p.segs ELSE Cwd \o p.segs

\* the length of the longest common prefix of two absolute paths
RECURSIVE CommonLen(_, _, _)
CommonLen(a, b, n) ==
    IF n < Len(a) /\ n < Len(b) /\ a[n + 1] = b[n + 1] THEN CommonLen(a, b, n + 1) ELSE n
\* filepath.Rel(base, targ) of two absolute paths, as the names and
\* separators of its result: ".." for every name of base past the common
\* prefix, then the rest of targ; "." when nothing is left
RECURSIVE Slashed(_)
Slashed(segs) ==
    IF Len(segs) <= 1 THEN segs ELSE <<segs[1], "/">> \o Slashed(Tail(segs))
Rel(base, targ) ==
    LET n == CommonLen(base, targ, 0)
        ups == [i \in 1..(Len(base) - n) |-> ".."]
        rest == ups \o SubSeq(targ, n + 1, Len(targ))
    IN IF rest = <<>> THEN <<".">> ELSE Slashed(rest)

\* e.Op.String()
OpString(op) == <<op>>

\* mustache.Render(arg, {"path": p, "op": o})
RECURSIVE Render(_, _, _)
Render(arg, p, o) ==
    IF arg = <<>> THEN <<>>
    ELSE (IF Head(arg) = "{{path}}" THEN p
          ELSE IF Head(arg) = "{{op}}" THEN o
          ELSE <<Head(arg)>>) \o Render(Tail(arg), p, o)

\* if e == nil { e = &watcher.Event{} }
EventOrZero(e) == IF e = NilEvent THEN ZeroEvent ELSE e

\* unescapeArgs(args, e) with ctx.dir = dir
UnescapeArgs(dir, args, e) ==
    LET ev == EventOrZero(e)
        p == Rel(Abs(dir), Abs(ev.path))
    IN [i \in 1..Len(args) |-> Render(args[i], p, OpString(ev.op))]

\* run: execCtxClone.Dir(ctx.dir).Args(unescapeArgs(ctx.args, e))
RunRender ==
    /\ renderOut = NotRendered
    /\ renderOut' = UnescapeArgs(renderIn.dir, renderIn.args, renderIn.ev)
    /\ UNCHANGED <<renderIn, mainPc, argVars, guardVars, supVars, writerVars>>

\* a run of a supervisor with working directory dir and command args, the
\* initial run or the run for an event
InitRender ==
    /\ noInitRun = FALSE
    /\ GuardInit
    /\ mainPc = "none"
    /\ MainIdle
    /\ SupsIdle
    /\ renderIn \in [dir : Dirs, args : CmdArgs,
                     ev : {NilEvent} \cup [path : EventPaths, op : Ops]]
    /\ renderOut = NotRendered
    /\ WriterIdle

NextRender == RunRender

SpecRender == InitRender /\ [][NextRender]_vars

\* ---------------------------------------------------------- prefix writer
\* one turn of the loop of run (exec_unix.go:64-78) with a rune read
WriterRune ==
    /\ readPc = "loop"
    /\ nRead < Len(childOut)
    /\ LET r == childOut[nRead + 1] IN
       /\ written' = written \o (IF newline THEN <<Prefix>> ELSE <<>>) \o <<r>>
       /\ newline' = (r = NL)
    /\ nRead' = nRead + 1
    /\ UNCHANGED <<childOut, readPc>>
    /\ UNCHANGED <<mainPc, argVars, guardVars, supVars, renderVars>>

\* the turn in which ReadRune returns an error (end of the output): r is the
\* zero rune, string(r) is written and the loop ends
WriterEnd ==
    /\ readPc = "loop"
    /\ nRead = Len(childOut)
    /\ written' = Append(written, NulRune)
    /\ readPc' = "done"
    /\ UNCHANGED <<childOut, nRead, newline>>
    /\ UNCHANGED <<mainPc, argVars, guardVars, supVars, renderVars>>

\* run at its read loop, the child about to write its output
InitWriter ==
    /\ noInitRun = FALSE
    /\ GuardInit
    /\ mainPc = "none"
    /\ MainIdle
    /\ SupsIdle
    /\ RenderIdle
    /\ childOut \in Outputs
    /\ nRead = 0
    /\ newline = TRUE
    /\ written = <<>>
    /\ readPc = "loop"

NextWriter ==
    \/ WriterRune
    \/ WriterEnd

SpecWriter == InitWriter /\ [][NextWriter]_vars

\* ------------------------------------------------------------- claims
\* the children of the supervisor that are alive
AliveChildren == {g \in Runs : <<g, "child">> \in alive}
\* the runs whose child has been spawned and whose wait has not returned
PendingWaits == {g \in spawned : runPc[g] = "running"}
\* the runs launched by events (go run(&e)), the initial run apart
Restarts == NLaunched - (IF noInitRun THEN 0 ELSE 1)
CeilDiv(a, b) == (a + b - 1) \div b
\* the event loop is not in the middle of an event
LoopIdle == loopPc \in {"select", "done"}

\* C1: in every reachable state at most one child of the supervisor is alive.
C1_AtMostOneChild == Cardinality(AliveChildren) <= 1

\* C2: the supervisor never has a child spawned while the wait of another
\* child it spawned is still pending.
C2_SpawnAfterWait == Cardinality(PendingWaits) <= 1

\* C3: a matched event arriving at time now is processed (the handler goes on
\* to the kill or launches the next run) iff now - lastRun >= debounce, where
\* lastRun is the arrival time of the previous matched event (the zero time
\* at first); a dropped event causes no kill and no spawn; lastRun becomes now
\* either way.
C3_Debounce ==
    [][nMatched' = nMatched + 1 =>
        LET passes == now - lastRun >= debounce IN
        /\ lastRun = lastT
        /\ lastRun' = now
        /\ passes <=> (NLaunched' = NLaunched + 1 \/ loopPc' = "kill")
        /\ ~passes => UNCHANGED <<loopPc, curEvent, runPc, cmd, procVars, killLog, count>>
    ]_vars
\* three matched events were received, one of them dropped
C3_Witness == nMatched = 3 /\ Restarts = 2 /\ loopPc = "select"

\* C4 as stated: the restarts triggered by matched events arriving between t1
\* and tn number at most ceil((tn - t1) / d).
C4_CeilBound == nMatched >= 1 => Restarts <= CeilDiv(lastT - firstT, debounce)
\* C4 amended: the restarts triggered by matched events received by the event
\* loop between t1 and tn number at most floor((tn - t1) / d) + 1.
C4_FloorBound == nMatched >= 1 => Restarts <= ((lastT - firstT) \div debounce) + 1
\* three restarts, the last two debounce intervals after the first
C4_Witness == Restarts = 3 /\ lastT - firstT = 2 * debounce

\* C5: with the initial run, a burst of matched events each less than debounce
\* after its predecessor triggers exactly one restart: never more than two
\* runs, and exactly two once the event loop is through with the events.
C5_BurstOneRestart ==
    (~noInitRun /\ burst /\ nMatched >= 1) =>
        /\ Restarts <= 1
        /\ LoopIdle => NLaunched = 2
\* a burst of three events that spans a whole debounce interval
C5_Witness ==
    /\ ~noInitRun /\ burst /\ nMatched = 3
    /\ lastT - firstT >= debounce
    /\ loopPc = "select" /\ NLaunched = 2

\* C6: when Stop makes Do return, no child of the supervisor is left alive:
\* the child that was running has been killed and its exit awaited.
C6_StopDrains == [][(doPc = "polling" /\ doPc' = "returned") => AliveChildren' = {}]_vars

\* C7: once Stop has been called the supervisor launches no further run.
C7_StopTerminal == [][doPc = "returned" => NLaunched' = NLaunched]_vars

\* C8: with NoInitRun nothing runs before the first matched event (no run
\* goroutine, run counter 0, no child); that event launches exactly one run,
\* run 1, and no KillTree is issued for it.
C8_NoInitRun ==
    noInitRun =>
        /\ nMatched = 0 => (NLaunched = 0 /\ count = 0 /\ spawned = {} /\ killLog = {})
        /\ nMatched = 1 => (NLaunched = 1 /\ count <= 1 /\ spawned \subseteq {1}
                            /\ killLog = {} /\ LoopIdle)
\* the first matched event has spawned the child of run 1
C8_Witness ==
    /\ noInitRun /\ nMatched = 1
    /\ count = 1 /\ AliveChildren = {1}

\* C9: after KillTree was issued for a child and the wait of that child has
\* returned, no process of the child's tree is left alive, apart from those
\* the signal is terminating.
C9_TreeKill ==
    \A g \in Runs :
        ((\E b \in BOOLEAN : <<g, b>> \in killLog) /\ runPc[g] \in {"send", "finished"})
            => \A p \in alive \ termed : p[1] # g

\* C10: once a Create event for a matched directory has been received, the
\* matched paths the directory held are in the poller's watch set.
C10_WatchExtension ==
    lastDir # NoDir => Glob(lastDir.path, lastDir.files) \subseteq watched

\* the number of "---" tokens of a command line
NSeparators(args) == Cardinality({i \in 1..Len(args) : args[i] = "---"})
\* the partitions joined in order, "---" between them
RECURSIVE Join(_)
Join(list) ==
    IF Len(list) = 0 THEN <<>>
    ELSE IF Len(list) = 1 THEN list[1]
    ELSE list[1] \o <<"---">> \o Join(Tail(list))
\* a partition holds a command: a "--" token and something after the first
HasCommand(part) == \E i \in 1..(Len(part) - 1) : part[i] = "--" /\ \A j \in 1..(i - 1) : part[j] # "--"

\* C13: split returns (number of "---" tokens + 1) partitions, none holds a
\* "---", joined with "---" they give back argv; the options main builds
\* are those of the partitions, in the order of the partitions.
C13_SplitPartitions ==
    mainPc \notin {"args", "split"} =>
        /\ Len(parts) = NSeparators(argv) + 1
        /\ \A k \in 1..Len(parts) : \A i \in 1..Len(parts[k]) : parts[k][i] # "---"
        /\ Join(parts) = argv
        /\ Len(optsList) <= Len(parts)
        /\ \A k \in 1..Len(optsList) :
               /\ GenOptions(parts[k]).panic = ""
               /\ optsList[k].cmd = GenOptions(parts[k]).cmd
               /\ optsList[k].raw = GenOptions(parts[k]).raw
\* two partitions with a command each, both built, the supervisors started
C13_Witness ==
    /\ mainPc = "waiting"
    /\ argv = <<"--", "c", "---", "--", "c">>
    /\ Len(optsList) = 2
    /\ optsList[1].cmd = <<"c">> /\ optsList[2].cmd = <<"c">>

\* C14: main starts the supervisors only when every partition holds a
\* command; a partition without one (empty, without "--", or with nothing
\* after "--") makes genOptions panic before any supervisor is started.
C14_EmptyCommandRejected ==
    mainPc = "waiting" => \A k \in 1..Len(parts) : HasCommand(parts[k])

\* the position of the first "@file" token of args whose file can be read, 0 if none
FirstReadable(args, rd) ==
    IF \E i \in 1..Len(args) : IsFileToken(args[i]) /\ FileOf(args[i]) \in rd
    THEN CHOOSE i \in 1..Len(args) :
             /\ IsFileToken(args[i]) /\ FileOf(args[i]) \in rd
             /\ \A j \in 1..(i - 1) : ~(IsFileToken(args[j]) /\ FileOf(args[j]) \in rd)
    ELSE 0
\* C15: when the command line holds a readable "@file" token, the resulting
\* argv is the command line with the first such token replaced by the lines
\* of its file, every other token kept as it is.
C15_FirstFileExpanded ==
    (mainPc # "args" /\ FirstReadable(osArgs, readable) # 0) =>
        LET i == FirstReadable(osArgs, readable) IN
        argv = SubSeq(osArgs, 1, i - 1)
               \o SplitLines(FileText(FileOf(osArgs[i])))
               \o SubSeq(osArgs, i + 1, Len(osArgs))

\* C16: the initial run (no event) renders every token of the command with
\* path and op both bound to the empty string, whatever ctx.dir is.
C16_InitialRunEmptyVars ==
    (renderIn.ev = NilEvent /\ renderOut # NotRendered) =>
        renderOut = [i \in 1..Len(renderIn.args) |-> Render(renderIn.args[i], <<>>, <<>>)]

\* the child's output with the prefix before its first rune and before each
\* rune that follows a newline
RECURSIVE Prefixed(_, _)
Prefixed(out, i) ==
    IF i > Len(out) THEN <<>>
    ELSE (IF i = 1 \/ out[i - 1] = NL THEN <<Prefix>> ELSE <<>>)
         \o <<out[i]>> \o Prefixed(out, i + 1)
\* C19: once the read loop has ended, what was written is the child's output
\* with the prefix at the start of every line, and nothing else.
C19_PrefixedOutput == readPc = "done" => written = Prefixed(childOut, 1)

\* C18: once the spawn of a run has failed and the next matched event past
\* the debounce window has been received, the process has not crashed: the
\* event loop goes on to start the next run.
C18_SpawnFailureSurvived == afterFail => ~Crashed

\* C11: a supervisor that has received no event matching its own patterns,
\* whatever events matching the other supervisor's patterns were delivered
\* and handled, has issued no kill, launched no run but its initial one,
\* counted no run but that one and still has the zero debounce timestamp.
C11_OtherSupervisorUntouched ==
    \A s \in Sups :
        sOwnEv[s] = 0 =>
            /\ sKills[s] = 0
            /\ SupLaunched(s) \subseteq {1}
            /\ sCount[s] <= 1
            /\ sCmd[s] \in {Nil, 1}
            /\ sLastRun[s] = ZeroTime
\* an event for "p1" was delivered to both supervisors: supervisor 1 killed
\* its child and runs the command a second time, supervisor 2 still runs its
\* first child
C11_Witness ==
    /\ sOwnEv[1] = 1 /\ sKills[1] = 1 /\ sCount[1] = 2 /\ <<1, 2>> \in mAlive
    /\ sOwnEv[2] = 0 /\ sOtherEv[2] = 1 /\ sCount[2] = 1 /\ <<2, 1>> \in mAlive

\* the children alive whose run is a raw-mode one
RawChildren == {r \in mAlive : sIsRaw[r[1]]}
\* C12: across the supervisors at most one child started in raw mode is
\* alive at any time: no two supervisors have a raw-mode child alive at once.
C12_OneRawChild == \A r1 \in RawChildren, r2 \in RawChildren : r1[1] = r2[1]

\* C17: when SIGINT or SIGTERM has ended main, every supervisor has been
\* stopped and no child is left alive.
C17_SignalStopsAll ==
    mainPc = "killed" =>
        /\ \A s \in Sups : sLoopPc[s] \in {"none", "done"}
        /\ mAlive = {}

\* C20: a supervisor's child runs in raw mode exactly when its partition
\* passes --raw; a run of a supervisor without --raw never holds the raw lock.
C20_RawOnlyWithFlag ==
    \A s \in Sups :
        sLoopPc[s] # "none" =>
            /\ sIsRaw[s] = optsList[s].raw
            /\ ~optsList[s].raw => \A g \in SupRuns : rawLock # <<s, g>>

\* C21: an event the matcher does not match changes nothing in the event
\* loop, the runs, the processes or the kills: no KillTree, no go run, the
\* run counter, the command and lastRun as before; so at every matched event
\* lastRun still is the arrival time of the previous matched event, whatever
\* unmatched events came in between.
C21_UnmatchedIgnored ==
    [][/\ nOther' = nOther + 1 =>
              UNCHANGED <<loopPc, curEvent, lastRun, runPc, count, cmd, procVars, killLog>>
       /\ nMatched' = nMatched + 1 => lastRun = lastT
    ]_vars
\* an unmatched event arrived between two matched events a debounce interval
\* apart, and both matched events were processed
C21_Witness ==
    /\ nMatched = 2 /\ nOther = 1
    /\ otherAt = 1
    /\ lastT - firstT = debounce
    /\ Restarts = 2

\* C22: a KillTree whose signal could not be delivered (the group had no
\* process left) is logged by the supervisor.
C22_KillFailureLogged ==
    \A g \in Runs : <<g, FALSE>> \in killLog => <<"kill", g>> \in logged

\* C25: KillTree is issued only for a child that is still alive.
C25_KillOnlyAlive ==
    [][\A g \in Runs :
          (\E b \in BOOLEAN : <<g, b>> \in killLog' \ killLog) => <<g, "child">> \in alive
    ]_vars

\* C23: once watchFiles(dir) has returned, every path of its glob walk is in
\* the poller's watch set, and so is the directory holding the path, whether
\* the walk listed that directory or not.
C23_ParentsWatched ==
    lastWalk # NoDir =>
        \A p \in Glob(lastWalk.path, lastWalk.files) : p \in watched /\ Parent(p) \in watched
\* a walk of the root that listed a file of the root, which the patterns do
\* not match, and a file of a directory the walk listed too
C23_Witness ==
    /\ lastWalk # NoDir
    /\ lastWalk.path = Root
    /\ {"a", "D", "D/f"} \subseteq lastWalk.files
    /\ ~Matched(Root)
    /\ loopPc = "select"

\* C24: the raw lock is held only by a run between rawLock.Lock() and the end
\* of its deferred function, so no return path of run keeps it; a run is in
\* its deferred function only with the lock held and after the child's wait
\* has returned; when the run is about to release the lock the terminal is
\* back in the mode MakeRaw saved (if it saved one); and once the holder's
\* child is dead the holder's next step is enabled, so the lock gets free for
\* a run blocked on it.
C24_RestoreBeforeUnlock ==
    \A s \in Sups, g \in SupRuns :
        /\ rawLock = <<s, g>> =>
               /\ sRunPc[s][g] \in {"read", "restore", "unlock"}
               /\ (<<s, g>> \notin mAlive /\ ~SupCrashed) =>
                      ENABLED (SupRunWaitReturn(s, g) \/ SupRunRestore(s, g)
                                   \/ SupRunUnlock(s, g))
        /\ sRunPc[s][g] \in {"restore", "unlock"} =>
               rawLock = <<s, g>> /\ <<s, g>> \notin mAlive
        /\ (sRunPc[s][g] = "unlock" /\ sOld[<<s, g>>] # "nil") =>
               ttyRaw = (sOld[<<s, g>>] = "raw")
\* the raw run of the second supervisor holds the lock after the raw run of
\* the first one returned, and the mode it saved is the one the first run
\* had saved and restored
C24_Witness ==
    /\ sRunPc[1][1] = "send"
    /\ sOld[<<1, 1>>] = "cooked"
    /\ rawLock = <<2, 1>>
    /\ sOld[<<2, 1>>] = "cooked"
    /\ ttyRaw

====
